---- MODULE Spec2Model ----
(***************************************************************************)
(* MusicDownloader of src/src/artistdl.py: the download queue, the worker  *)
(* thread that drains it and the ledger (database) it deduplicates         *)
(* against.  add_artist_to_queue runs on request threads (src/src/app.py   *)
(* serves each request on its own thread), _process_queue_thread runs on   *)
(* the thread process_queue starts.  No lock guards the shared fields, so  *)
(* every statement that touches one is a step of its own; statements that  *)
(* touch only locals or wait for a collaborator are joined to the shared   *)
(* access that follows them (chart lookup and searches to the read of the  *)
(* job, download_song to the ledger append).                               *)
(*                                                                         *)
(* Collaborators (Last.fm chart, YouTube Music search, yt-dlp, the file    *)
(* system) answer nondeterministically.  A chart entry is represented by   *)
(* the catalog's answer to its search.  Ledger entries keep id and artist; *)
(* track title and download date play no part in any decision.             *)
(***************************************************************************)
EXTENDS Integers, Sequences, FiniteSets, TLC

\* ------------------------------------------------------------------ bounds
MaxCalls == 2       \* add_artist_to_queue calls made in a run
MaxTracks == 2      \* longest list the chart lookup returns
MaxId == 1          \* distinct catalog ids (videoId)
MaxHits == 2        \* longest result list of one catalog search
MaxLedgerIds == 2   \* distinct ids given to add_to_database in the ledger specification
MaxAdds == 3        \* add_to_database calls that return, in the ledger specification
FavMaxSongs == 2    \* longest liked-songs list of a platform (favorites.py)
FavMaxId == 2       \* distinct song ids of a platform (favorites.py)
JobMaxTracks == 3   \* longest chart list in the single-job specification
JobMaxId == 2       \* distinct catalog ids in the single-job specification

Calls == 1..MaxCalls
Ids == 1..MaxId
NoId == 0           \* videoId None or "" (falsy)
None == 0           \* current_download = None
Artists == {"", "A"}
Limits == {1}       \* limit of a job: any integer of the form field, here the smallest
ArtistLists == {<<>>}
JobIds == 1..JobMaxId
AllIds == Ids \cup JobIds
JobArtistLists == {<<>>, <<"B", "C">>}

\* ------------------------------------------------------------------ state
VARIABLES
    download_queue,     \* list of job references (jobs are identified by enqueue order)
    jobs,               \* the job dicts: job reference -> [artist, limit, progress, status]
    processing,         \* self.processing
    current_download,   \* self.current_download: a job reference or None
    database,           \* self.database: list of ledger entries
    db_file,            \* contents of database.json
    call,               \* position of each add_artist_to_queue call
    worker,             \* position and locals of each _process_queue_thread
    started,            \* history: job references in the order they were set 'downloading'
    popped,             \* history: what each pop(0) removed
    okCount,            \* history: successful download_song calls per id
    lastFetch,          \* history: per job, index of the candidate last given to download_song
    ledgerLog,          \* history: how load_database and the last add_to_database ended,
                        \* and the entries whose add_to_database returned
    fav                 \* the FavoritesSync object of favorites.py and the position of
                        \* its sync() call

vars == <<download_queue, jobs, processing, current_download, database, db_file,
          call, worker, started, popped, okCount, lastFetch, ledgerLog, fav>>

\* ------------------------------------------------------------------ values
\* progress is the float (i / n) * 100, kept as the exact fraction num / den in
\* lowest terms
RECURSIVE Gcd(_, _)
Gcd(a, b) == IF b = 0 THEN a ELSE Gcd(b, a % b)
Pct(i, n) == [num |-> (i * 100) \div Gcd(i * 100, n), den |-> n \div Gcd(i * 100, n)]
Zero == [num |-> 0, den |-> 1]
PctLeq(p, q) == p.num * q.den <= q.num * p.den
Is100(p) == p.num = 100 * p.den

Last(q) == q[Len(q)]

SeqsUpTo(S, n) == UNION {[1..k -> S] : k \in 0..n}

\* search_song's None.  hit and entry are history: the place of a song in the result
\* list of its search, and the chart position whose search returned it
NoTrack == [kind |-> "none", videoId |-> NoId, artists |-> <<>>, hit |-> 0, entry |-> 0]
Songs == [kind : {"song"}, videoId : Ids \cup {NoId}, artists : ArtistLists,
          hit : 1..MaxHits, entry : {0}]
\* the result lists of ytmusic.search(query, filter="songs"), best match first
ResultsOf(songs) == {r \in SeqsUpTo(songs, MaxHits) : \A k \in 1..Len(r) : r[k].hit = k}
Results == ResultsOf(Songs)
\* what ytmusic.search does for one chart entry: an exception, or a result list
ResponsesOf(songs) == {[kind |-> "error", results |-> <<>>]}
                          \cup {[kind |-> "ok", results |-> r] : r \in ResultsOf(songs)}
Responses == ResponsesOf(Songs)
\* the single-job specification: two ids, songs with contributing artists (those of a
\* song without id are left empty: line 394 skips it before they are read)
JobSongs == {s \in [kind : {"song"}, videoId : JobIds \cup {NoId},
                    artists : JobArtistLists, hit : 1..MaxHits, entry : {0}] :
                s.videoId = NoId => s.artists = <<>>}
JobResponses == ResponsesOf(JobSongs)

NoStats == [total |-> -1, found |-> -1, downloaded |-> -1, failed |-> -1]
ZeroStats == [total |-> 0, found |-> 0, downloaded |-> 0, failed |-> 0]

NoWorker == [pc |-> "none", job |-> 0, artist |-> "", limit |-> 0, chart |-> "none",
             total |-> 0, searches |-> 0, tracks |-> <<>>, i |-> 0,
             errored |-> {}, matched |-> 0,
             fetches |-> 0, nones |-> 0, skips |-> 0, saveErrors |-> 0,
             tagErrors |-> 0, subdir |-> "", tagArtist |-> "", downloaded |-> 0,
             failed |-> 0, stats |-> NoStats]

\* favorites.py before FavoritesSync() is constructed.  downloads, skipped and last are
\* history: download_song calls made, liked songs skipped as duplicates, and how the
\* last liked song ended
NoFav == [pc |-> "none", ytmusic |-> FALSE,
          database |-> [spotify |-> <<>>, ytmusic |-> <<>>],
          file |-> [kind |-> "absent", data |-> <<>>],
          songs |-> <<>>, i |-> 0, downloads |-> 0, skipped |-> 0, last |-> "none"]

\* ------------------------------------------------------------------ ledger
\* contents of database.json that are not a stored ledger: no file, a zero-length
\* file, text that is not JSON (a torn write), JSON that is not a list (null, {}),
\* bytes that are not text in the locale's encoding
BadFiles == {[kind |-> k, data |-> <<>>] :
                k \in {"absent", "empty", "corrupt", "nonlist", "binary"}}

\* lines 279-285, how load_database ends: json.load's value is returned as it is,
\* JSONDecodeError is the only exception caught (UnicodeDecodeError is not one)
LoadOutcome(file) ==
    CASE file.kind = "binary" -> "raised"
      [] file.kind = "nonlist" -> "other"
      [] OTHER -> "list"

\* lines 279-285: the parsed list, [] for a missing or undecodable file
load_database(file) ==
    IF file.kind = "ok" THEN file.data ELSE <<>>

\* line 294
is_duplicate(db, video_id) ==
    \E k \in 1..Len(db) : db[k].id = video_id

\* lines 299-304 (without track and download_date)
NewEntry(video_id, artist) == [id |-> video_id, artist |-> artist]

\* mutant of add_to_database: the new entry replaces the list
add_to_database_replace(db, video_id, artist) ==
    <<NewEntry(video_id, artist)>>

\* the list after add_to_database's append (the save follows in the caller's step)
add_to_database(db, video_id, artist) ==
    Append(db, NewEntry(video_id, artist))

\* mutant of save_database: only the newest entry is written
save_database_newest(db) ==
    [kind |-> "ok", data |-> IF db = <<>> THEN <<>> ELSE <<Last(db)>>]

\* save_database: the file after a write that succeeded
save_database(db) == [kind |-> "ok", data |-> db]

\* save_database raising OSError: open() failed (file untouched) or the write
\* failed after open(..., "w") truncated the file
FailedSaves(file) == {file, [kind |-> "corrupt", data |-> <<>>]}

\* ------------------------------------------------------------------ resolver
\* mutant of search_song: the last result instead of the first
search_song_last(resp) ==
    IF resp.kind = "error" \/ resp.results = <<>> THEN NoTrack ELSE Last(resp.results)

\* lines 160-186: None for no results and for any exception, else results[0]
search_song(resp) ==
    IF resp.kind = "error" \/ resp.results = <<>> THEN NoTrack ELSE resp.results[1]

\* mutant of found_tracks: the first search that raises ends the searching
found_tracks_abort(top_tracks) ==
    LET errs == {k \in 1..Len(top_tracks) : top_tracks[k].kind = "error"}
        n == IF errs = {} THEN Len(top_tracks)
             ELSE (CHOOSE k \in errs : \A e \in errs : k <= e) - 1
    IN  [k \in 1..n |-> [search_song(top_tracks[k]) EXCEPT !.entry = k]]

\* lines 376-380: one search_song per chart entry, in chart order
found_tracks(top_tracks) ==
    [k \in 1..Len(top_tracks) |-> [search_song(top_tracks[k]) EXCEPT !.entry = k]]

IsValid(t) == t.kind # "none"

valid_tracks(found) == SelectSeq(found, IsValid)

\* mutant of artist_name: always the requested artist
artist_name_requested(track, artist) == artist

\* lines 408-410: first contributing artist, else the requested artist
artist_name(track, artist) ==
    IF Len(track.artists) > 0 THEN track.artists[1] ELSE artist

\* ------------------------------------------------------------------ Init
Init ==
    /\ download_queue = <<>>
    /\ jobs = <<>>
    /\ processing = FALSE
    /\ current_download = None
    /\ db_file = [kind |-> "absent", data |-> <<>>]
    /\ database = load_database([kind |-> "absent", data |-> <<>>])
    /\ call = [c \in Calls |-> "idle"]
    /\ worker = [c \in Calls |-> NoWorker]
    /\ started = <<>>
    /\ popped = <<>>
    /\ okCount = [v \in AllIds |-> 0]
    /\ lastFetch = <<>>
    /\ ledgerLog = [load |-> LoadOutcome(db_file), add |-> "none", recorded |-> <<>>]
    /\ fav = NoFav

\* ------------------------------------------------------------------ add_artist_to_queue
\* mutant of NewJob: the job is created as 'downloading'
NewJobDownloading(artist, limit) ==
    [artist |-> artist, limit |-> limit, progress |-> Zero, status |-> "downloading"]

\* line 311: the dict that is appended
NewJob(artist, limit) ==
    [artist |-> artist, limit |-> limit, progress |-> Zero, status |-> "queued"]

\* mutant of Enqueue: the new job is put at the head
EnqueueAtHead(q, ref) == <<ref>> \o q

\* where add_artist_to_queue puts the new job (line 310)
Enqueue(q, ref) == Append(q, ref)

\* line 310: download_queue.append({...})
AddArtistToQueue(c, artist, limit) ==
    /\ call[c] = "idle"
    /\ \A b \in Calls : b < c => call[b] # "idle"
    /\ jobs' = Append(jobs, NewJob(artist, limit))
    /\ download_queue' = Enqueue(download_queue, Len(jobs) + 1)
    /\ lastFetch' = Append(lastFetch, 0)
    /\ call' = [call EXCEPT ![c] = "check"]
    /\ UNCHANGED <<fav, ledgerLog, processing, current_download, database, db_file, worker,
                   started, popped, okCount>>

\* line 314: if not self.processing
CheckProcessing(c) ==
    /\ call[c] = "check"
    /\ call' = [call EXCEPT ![c] = IF processing THEN "done" ELSE "process_queue"]
    /\ UNCHANGED <<fav, ledgerLog, download_queue, jobs, processing, current_download, database,
                   db_file, worker, started, popped, okCount, lastFetch>>

\* line 319: if not self.processing and self.download_queue
ProcessQueue(c) ==
    /\ call[c] = "process_queue"
    /\ call' = [call EXCEPT ![c] =
                 IF ~processing /\ download_queue # <<>> THEN "start" ELSE "done"]
    /\ UNCHANGED <<fav, ledgerLog, download_queue, jobs, processing, current_download, database,
                   db_file, worker, started, popped, okCount, lastFetch>>

\* lines 320-322: self.processing = True; Thread(...).start()
StartThread(c) ==
    /\ call[c] = "start"
    /\ processing' = TRUE
    /\ worker' = [worker EXCEPT ![c].pc = "loop"]
    /\ call' = [call EXCEPT ![c] = "done"]
    /\ UNCHANGED <<fav, ledgerLog, download_queue, jobs, current_download, database, db_file,
                   started, popped, okCount, lastFetch>>

\* ------------------------------------------------------------------ _process_queue_thread
\* an uncaught exception ends the thread where it stands
Crash(w) == [worker EXCEPT ![w].pc = "crashed"]

\* line 326: while self.download_queue
WorkerLoop(w) ==
    /\ worker[w].pc = "loop"
    /\ worker' = [worker EXCEPT ![w].pc =
                   IF download_queue # <<>> THEN "take" ELSE "exit"]
    /\ UNCHANGED <<fav, ledgerLog, download_queue, jobs, processing, current_download, database,
                   db_file, call, started, popped, okCount, lastFetch>>

\* line 327: self.current_download = self.download_queue[0]   (IndexError when empty)
TakeHead(w) ==
    /\ worker[w].pc = "take"
    /\ IF download_queue = <<>>
       THEN /\ worker' = Crash(w)
            /\ UNCHANGED current_download
       ELSE /\ current_download' = Head(download_queue)
            /\ worker' = [worker EXCEPT ![w].pc = "status"]
    /\ UNCHANGED <<fav, ledgerLog, download_queue, jobs, processing, database, db_file, call,
                   started, popped, okCount, lastFetch>>

\* line 328: self.current_download["status"] = "downloading"   (TypeError on None)
SetDownloading(w) ==
    /\ worker[w].pc = "status"
    /\ IF current_download = None
       THEN /\ worker' = Crash(w)
            /\ UNCHANGED <<jobs, started>>
       ELSE /\ jobs' = [jobs EXCEPT ![current_download].status = "downloading"]
            /\ started' = Append(started, current_download)
            /\ worker' = [worker EXCEPT ![w].pc = "resolve"]
    /\ UNCHANGED <<fav, ledgerLog, download_queue, processing, current_download, database, db_file,
                   call, popped, okCount, lastFetch>>

\* the locals of _download_artist_top_tracks once the chart and the catalog answered
\* (lines 376-391)
Resolved(top_tracks) ==
    [chart |-> "ok", total |-> Len(top_tracks),
     searches |-> Len(found_tracks(top_tracks)),
     tracks |-> valid_tracks(found_tracks(top_tracks)),
     \* history: the chart positions whose search raised, and the number of chart
     \* entries whose search gave at least one result
     errored |-> {k \in 1..Len(top_tracks) : top_tracks[k].kind = "error"},
     matched |-> Cardinality({k \in 1..Len(top_tracks) :
                                 /\ top_tracks[k].kind = "ok"
                                 /\ top_tracks[k].results # <<>>})]

\* mutant of OnChartError: the MusicDownloaderError is not caught
OnChartErrorUncaught(me) ==
    [me EXCEPT !.chart = "err", !.pc = "crashed"]

\* lines 371-373: MusicDownloaderError is caught and empty statistics are returned
OnChartError(me) ==
    [me EXCEPT !.chart = "err", !.stats = ZeroStats, !.pc = "pop"]

\* mutant of InvalidArtist: no validation of the artist name
InvalidArtistNever(artist) == FALSE

\* lines 361-362: "if not artist: raise ValueError", before get_top_tracks
InvalidArtist(artist) == artist = ""

\* lines 329-331 and 361-391: read artist and limit of the current job (TypeError on
\* None), then _download_artist_top_tracks up to its download loop.  chart is what
\* get_top_tracks does: <<"err">> for MusicDownloaderError, <<"raise">> for any other
\* exception (a payload whose entries have no "name"), else <<"ok", top_tracks>>,
\* each chart entry standing for the catalog's answer to its search.
Resolve(w, chart) ==
    /\ worker[w].pc = "resolve"
    /\ IF current_download = None
       THEN worker' = Crash(w)
       ELSE LET job == jobs[current_download]
                me == [worker[w] EXCEPT !.job = current_download,
                                        !.artist = job.artist,
                                        !.limit = job.limit]
            IN  IF InvalidArtist(job.artist)
                THEN worker' = [worker EXCEPT ![w] = [me EXCEPT !.pc = "crashed"]]
                ELSE IF chart[1] = "raise"
                THEN worker' = [worker EXCEPT ![w] =
                                  [me EXCEPT !.chart = "raise", !.pc = "crashed"]]
                ELSE IF chart[1] = "err"
                THEN worker' = [worker EXCEPT ![w] = OnChartError(me)]
                ELSE LET r == Resolved(chart[2])
                     IN  worker' = [worker EXCEPT ![w] =
                                     [me EXCEPT !.chart = r.chart, !.total = r.total,
                                                !.searches = r.searches,
                                                !.tracks = r.tracks, !.i = 1,
                                                !.errored = r.errored,
                                                !.matched = r.matched,
                                                !.pc = "cand"]]
    /\ UNCHANGED <<fav, ledgerLog, download_queue, jobs, processing, current_download, database,
                   db_file, call, started, popped, okCount, lastFetch>>

\* mutant of Stats: found counts the chart entries instead of the matches
StatsFoundIsTotal(me) ==
    [total |-> me.total, found |-> me.total,
     downloaded |-> me.downloaded, failed |-> me.failed]

\* lines 432-437
Stats(me) ==
    [total |-> me.total, found |-> Len(me.tracks),
     downloaded |-> me.downloaded, failed |-> me.failed]

\* mutant of HasNoId: the id of a candidate is not looked at
HasNoIdNever(track) == FALSE

\* line 394: not track.get("videoId")
HasNoId(track) == track.videoId = NoId

\* lines 393-400, and 432-440 when the loop is over
NextCandidate(w) ==
    /\ worker[w].pc = "cand"
    /\ LET me == worker[w]
       IN  IF me.i > Len(me.tracks)
           THEN worker' = [worker EXCEPT ![w].stats = Stats(me), ![w].pc = "pop"]
           ELSE IF HasNoId(me.tracks[me.i])
           THEN worker' = [worker EXCEPT ![w].i = @ + 1, ![w].skips = @ + 1]
           ELSE IF is_duplicate(database, me.tracks[me.i].videoId)
           THEN worker' = [worker EXCEPT ![w].i = @ + 1, ![w].skips = @ + 1]
           ELSE worker' = [worker EXCEPT ![w].pc = "progress"]
    /\ UNCHANGED <<fav, ledgerLog, download_queue, jobs, processing, current_download, database,
                   db_file, call, started, popped, okCount, lastFetch>>

\* line 405: self.current_download["progress"] = (i / len(valid_tracks)) * 100
SetProgress(w) ==
    /\ worker[w].pc = "progress"
    /\ IF current_download = None
       THEN /\ worker' = Crash(w)
            /\ UNCHANGED jobs
       ELSE /\ jobs' = [jobs EXCEPT ![current_download].progress =
                         Pct(worker[w].i, Len(worker[w].tracks))]
            /\ worker' = [worker EXCEPT ![w].pc = "fetch"]
    /\ UNCHANGED <<fav, ledgerLog, download_queue, processing, current_download, database, db_file,
                   call, started, popped, okCount, lastFetch>>

\* what download_song can do: return a result, return None (no id, or yt-dlp
\* raised inside the try of lines 238-252), or raise from the mkdir of line 217
DownloadOutcomes == {"result", "none", "raise"}

\* mutant of OnFetchFailure: a missing result ends the job's loop uncounted
OnFetchFailureRaises(me) ==
    [me EXCEPT !.pc = "crashed"]

\* lines 428-430: no result, count the failure and go on with the next candidate
OnFetchFailure(me) ==
    [me EXCEPT !.failed = @ + 1, !.i = @ + 1, !.pc = "cand"]

\* lines 413-427 once add_to_database returned: apply_tags swallows its errors
OnFetchSuccess(me) ==
    [me EXCEPT !.downloaded = @ + 1, !.i = @ + 1, !.pc = "cand"]

\* lines 413-418 when save_database raises: counted, appended in memory, then the
\* OSError leaves _download_artist_top_tracks and the thread
OnSaveError(me) ==
    [me EXCEPT !.downloaded = @ + 1, !.pc = "crashed"]

\* mutant of AfterTags: a tag-write error leaves apply_tags
AfterTagsRaises(me, tagged) ==
    IF tagged THEN OnFetchSuccess(me)
    ELSE [me EXCEPT !.downloaded = @ + 1, !.pc = "crashed"]

\* lines 419-427 with lines 38-81: apply_tags catches every Exception of the tag
\* write (line 80), so the loop goes on alike whether the tags were written or not
AfterTags(me, tagged) == OnFetchSuccess(me)

\* lines 408-430: download_song, then on a result add_to_database (append and save)
\* and apply_tags
Fetch(w, dl, saved, tagged) ==
    /\ worker[w].pc = "fetch"
    \* lines 208-210: download_song returns None at once for a missing id
    /\ worker[w].tracks[worker[w].i].videoId = NoId => dl = "none"
    /\ LET track == worker[w].tracks[worker[w].i]
           name == artist_name(track, worker[w].artist)
           \* history: one more download_song call, one more None if it returned None
           \* and the save_database and tag-write failures it met
           me == [worker[w] EXCEPT
                     !.fetches = @ + 1,
                     !.subdir = name,
                     !.tagArtist = IF dl = "result" /\ saved THEN name ELSE @,
                     !.nones = IF dl = "none" THEN @ + 1 ELSE @,
                     !.saveErrors = IF dl = "result" /\ ~saved THEN @ + 1 ELSE @,
                     !.tagErrors = IF dl = "result" /\ saved /\ ~tagged
                                   THEN @ + 1 ELSE @]
       IN  /\ lastFetch' = [lastFetch EXCEPT ![me.job] = me.i]
           /\ CASE dl = "raise" ->
                   /\ worker' = [worker EXCEPT ![w] = [me EXCEPT !.pc = "crashed"]]
                   /\ UNCHANGED <<database, db_file, okCount, ledgerLog>>
                [] dl = "none" ->
                   /\ worker' = [worker EXCEPT ![w] = OnFetchFailure(me)]
                   /\ UNCHANGED <<database, db_file, okCount, ledgerLog>>
                [] dl = "result" ->
                   /\ okCount' = [okCount EXCEPT ![track.videoId] = @ + 1]
                   /\ database' = add_to_database(database, track.videoId, name)
                   /\ ledgerLog' = IF saved
                                   THEN [ledgerLog EXCEPT !.add = "ok",
                                            !.recorded = Append(@, Last(database'))]
                                   ELSE [ledgerLog EXCEPT !.add = "raised"]
                   /\ IF saved
                      THEN /\ db_file' = save_database(database')
                           /\ worker' = [worker EXCEPT ![w] = AfterTags(me, tagged)]
                      ELSE /\ db_file' \in FailedSaves(db_file)
                           /\ worker' = [worker EXCEPT ![w] = OnSaveError(me)]
    /\ UNCHANGED <<fav, download_queue, jobs, processing, current_download, call,
                   started, popped>>

\* line 332: self.download_queue.pop(0)   (IndexError when empty)
PopHead(w) ==
    /\ worker[w].pc = "pop"
    /\ IF download_queue = <<>>
       THEN /\ worker' = Crash(w)
            /\ UNCHANGED <<download_queue, popped>>
       ELSE /\ download_queue' = Tail(download_queue)
            /\ popped' = Append(popped,
                                [job |-> Head(download_queue),
                                 progress |-> jobs[Head(download_queue)].progress,
                                 status |-> jobs[Head(download_queue)].status])
            /\ worker' = [worker EXCEPT ![w].pc = "clear"]
    /\ UNCHANGED <<fav, ledgerLog, jobs, processing, current_download, database, db_file, call,
                   started, okCount, lastFetch>>

\* line 333: self.current_download = None
ClearCurrent(w) ==
    /\ worker[w].pc = "clear"
    /\ current_download' = None
    /\ worker' = [worker EXCEPT ![w] = [NoWorker EXCEPT !.pc = "loop"]]
    /\ UNCHANGED <<fav, ledgerLog, download_queue, jobs, processing, database, db_file, call,
                   started, popped, okCount, lastFetch>>

\* line 334: self.processing = False
WorkerExit(w) ==
    /\ worker[w].pc = "exit"
    /\ processing' = FALSE
    /\ worker' = [worker EXCEPT ![w].pc = "done"]
    /\ UNCHANGED <<fav, ledgerLog, download_queue, jobs, current_download, database, db_file, call,
                   started, popped, okCount, lastFetch>>

\* ------------------------------------------------------------------ specification
\* searches that answer; a search that raises gives the same None as one without
\* results (lines 163-165, 184-186) and is exercised in the single-job specification
Answered == {r \in Responses : r.kind = "ok"}

ChartAnswers == {<<"err">>, <<"raise">>} \cup {<<"ok", t>> : t \in SeqsUpTo(Answered, MaxTracks)}

CallStep(c) == CheckProcessing(c) \/ ProcessQueue(c) \/ StartThread(c)

WorkerStep(w) ==
    \/ WorkerLoop(w) \/ TakeHead(w) \/ SetDownloading(w)
    \/ \E chart \in ChartAnswers : Resolve(w, chart)
    \/ NextCandidate(w) \/ SetProgress(w)
    \/ \E dl \in DownloadOutcomes, saved \in BOOLEAN, tagged \in BOOLEAN :
          Fetch(w, dl, saved, tagged)
    \/ PopHead(w) \/ ClearCurrent(w) \/ WorkerExit(w)

Next ==
    \/ \E c \in Calls, a \in Artists, l \in Limits : AddArtistToQueue(c, a, l)
    \/ \E c \in Calls : CheckProcessing(c)
    \/ \E c \in Calls : ProcessQueue(c)
    \/ \E c \in Calls : StartThread(c)
    \/ \E w \in Calls : WorkerLoop(w)
    \/ \E w \in Calls : TakeHead(w)
    \/ \E w \in Calls : SetDownloading(w)
    \/ \E w \in Calls, chart \in ChartAnswers : Resolve(w, chart)
    \/ \E w \in Calls : NextCandidate(w)
    \/ \E w \in Calls : SetProgress(w)
    \/ \E w \in Calls, dl \in DownloadOutcomes, saved \in BOOLEAN, tagged \in BOOLEAN :
          Fetch(w, dl, saved, tagged)
    \/ \E w \in Calls : PopHead(w)
    \/ \E w \in Calls : ClearCurrent(w)
    \/ \E w \in Calls : WorkerExit(w)

Spec == Init /\ [][Next]_vars

\* One add_artist_to_queue call and the worker thread it starts, with longer charts,
\* two ids and songs that name their artists.
JobChartAnswers ==
    {<<"err">>, <<"raise">>}
        \cup {<<"ok", t>> : t \in SeqsUpTo(JobResponses, JobMaxTracks)}

JobNext ==
    \/ \E a \in Artists, l \in Limits : AddArtistToQueue(1, a, l)
    \/ CheckProcessing(1)
    \/ ProcessQueue(1)
    \/ StartThread(1)
    \/ WorkerLoop(1)
    \/ TakeHead(1)
    \/ SetDownloading(1)
    \/ \E chart \in JobChartAnswers : Resolve(1, chart)
    \/ NextCandidate(1)
    \/ SetProgress(1)
    \/ \E dl \in DownloadOutcomes, saved \in BOOLEAN, tagged \in BOOLEAN :
          Fetch(1, dl, saved, tagged)
    \/ PopHead(1)
    \/ ClearCurrent(1)
    \/ WorkerExit(1)

JobSpec == Init /\ [][JobNext]_vars

\* threads that are running keep being scheduled; nobody is obliged to call
\* add_artist_to_queue
FairSpec ==
    /\ Spec
    /\ \A c \in Calls : WF_vars(CallStep(c))
    /\ \A w \in Calls : WF_vars(WorkerStep(w))

\* ------------------------------------------------------------------ ledger life cycle
\* The ledger alone, over restarts of the program: MusicDownloader() loads
\* database.json, add_to_database is called for ids that is_duplicate does not know
\* (as line 398 ensures), and the process may be killed at any point.
LedgerIds == 1..MaxLedgerIds

runtime == <<download_queue, jobs, processing, current_download, call, worker,
             started, popped, okCount, lastFetch>>

StartLedgers == {<<>>} \cup {<<NewEntry(v, "A")>> : v \in LedgerIds}

StartFiles == BadFiles \cup {save_database(l) : l \in StartLedgers}

\* lines 258-275 with database.json in any condition
LedgerInit ==
    /\ download_queue = <<>>
    /\ jobs = <<>>
    /\ processing = FALSE
    /\ current_download = None
    /\ db_file \in StartFiles
    /\ database = load_database(db_file)
    /\ call = [c \in Calls |-> "idle"]
    /\ worker = [c \in Calls |-> NoWorker]
    /\ started = <<>>
    /\ popped = <<>>
    /\ okCount = [v \in AllIds |-> 0]
    /\ lastFetch = <<>>
    /\ ledgerLog = [load |-> LoadOutcome(db_file), add |-> "none", recorded |-> <<>>]
    /\ fav = NoFav

\* lines 296-306: append, then save_database (which may raise OSError).  On a ledger
\* that is no list (json.load gave null or {}) the call raises before it changes
\* anything
LedgerAdd(v, saved) ==
    /\ ledgerLog.load \in {"list", "other"}
    /\ Len(ledgerLog.recorded) < MaxAdds
    /\ IF ledgerLog.load = "other"
       THEN /\ ledgerLog' = [ledgerLog EXCEPT !.add = "raised"]
            /\ UNCHANGED <<database, db_file>>
       ELSE /\ ~is_duplicate(database, v)
            /\ database' = add_to_database(database, v, "A")
            /\ IF saved
               THEN /\ db_file' = save_database(database')
                    /\ ledgerLog' = [ledgerLog EXCEPT !.add = "ok",
                                        !.recorded = Append(@, Last(database'))]
               ELSE /\ db_file' \in FailedSaves(db_file)
                    /\ ledgerLog' = [ledgerLog EXCEPT !.add = "raised"]
    /\ UNCHANGED <<fav, runtime>>

\* the process is killed between two calls: memory is gone, the file is as it was
Kill ==
    /\ ledgerLog.load \in {"list", "other"}
    /\ database' = <<>>
    /\ ledgerLog' = [ledgerLog EXCEPT !.load = "down", !.add = "none"]
    /\ UNCHANGED <<fav, db_file, runtime>>

\* lines 287-290: the process is killed inside save_database, after open(..., "w")
\* truncated the file and before json.dump wrote all of it
KillInSave(v) ==
    /\ ledgerLog.load = "list"
    /\ ~is_duplicate(database, v)
    /\ database' = <<>>
    /\ db_file' = [kind |-> "corrupt", data |-> <<>>]
    /\ ledgerLog' = [ledgerLog EXCEPT !.load = "down", !.add = "none"]
    /\ UNCHANGED <<fav, runtime>>

\* lines 258-275: the program is started again and loads database.json
Restart ==
    /\ ledgerLog.load = "down"
    /\ database' = load_database(db_file)
    /\ ledgerLog' = [ledgerLog EXCEPT !.load = LoadOutcome(db_file)]
    /\ UNCHANGED <<fav, db_file, runtime>>

LedgerNext ==
    \/ \E v \in LedgerIds, saved \in BOOLEAN : LedgerAdd(v, saved)
    \/ Kill
    \/ \E v \in LedgerIds : KillInSave(v)
    \/ Restart

LedgerSpec == LedgerInit /\ [][LedgerNext]_vars

\* the program has just been started: load_database ended and nothing was added yet
FreshStart == ledgerLog.load # "down" /\ ledgerLog.add = "none"

\* ------------------------------------------------------------------ favorites.py
\* FavoritesSync.sync(): one thread, the Spotify liked songs and then the YouTube
\* Music liked songs, one liked song per step.
FavIds == 1..FavMaxId
Platforms == {"spotify", "ytmusic"}

\* favorites.py lines 53-58 (the id only)
FavEntry(song_id) == [id |-> song_id]

\* mutant of fav_is_duplicate: nothing is ever a duplicate
fav_is_duplicate_never(db, song_id, platform) == FALSE

\* favorites.py lines 48-49: FavoritesSync.is_duplicate
fav_is_duplicate(db, song_id, platform) ==
    \E k \in 1..Len(db[platform]) : db[platform][k].id = song_id

\* favorites.py lines 51-59: the dict after FavoritesSync.add_to_database's append
fav_add_to_database(db, song_id, platform) ==
    [db EXCEPT ![platform] = Append(@, FavEntry(song_id))]

\* favorites.py lines 44-46: the file after a write that succeeded
fav_save_database(db) == [kind |-> "ok", data |-> db]

\* duplicate-free favorites databases to start from
FavStartLists == {<<>>} \cup {<<FavEntry(v)>> : v \in FavIds}
FavStartDbs == [spotify : FavStartLists, ytmusic : FavStartLists]

\* what get_spotify_liked_songs and get_ytmusic_liked_songs return (the ids, which may
\* repeat; a YouTube Music track may have no videoId; [] also stands for a failure)
SpotifyLiked == SeqsUpTo(FavIds, FavMaxSongs)
YtmusicLiked == SeqsUpTo(FavIds \cup {NoId}, FavMaxSongs)

\* what ytmusic.search does for a Spotify song (line 119-121): it raises (or the hit
\* has no "videoId" key), finds nothing, or gives a hit with or without a video id
FavSearches == {"raise", "nomatch", "hit", "hitnoid"}

\* favorites.py lines 22-33 with favorites.json holding a duplicate-free database,
\* with or without oauth.json
FavInit ==
    /\ download_queue = <<>>
    /\ jobs = <<>>
    /\ processing = FALSE
    /\ current_download = None
    /\ db_file = [kind |-> "absent", data |-> <<>>]
    /\ database = <<>>
    /\ call = [c \in Calls |-> "idle"]
    /\ worker = [c \in Calls |-> NoWorker]
    /\ started = <<>>
    /\ popped = <<>>
    /\ okCount = [v \in AllIds |-> 0]
    /\ lastFetch = <<>>
    /\ ledgerLog = [load |-> "list", add |-> "none", recorded |-> <<>>]
    /\ fav \in {[NoFav EXCEPT !.pc = "start", !.ytmusic = y, !.database = d,
                               !.file = fav_save_database(d)] :
                    y \in BOOLEAN, d \in FavStartDbs}

\* favorites.py lines 111-112 and 139: the Spotify list is fetched; without a YTMusic
\* client both loops are skipped
GetSpotifyLiked(songs) ==
    /\ fav.pc = "start"
    /\ fav' = IF fav.ytmusic
              THEN [fav EXCEPT !.pc = "spotify", !.songs = songs, !.i = 1]
              ELSE [fav EXCEPT !.pc = "done"]
    /\ UNCHANGED <<database, db_file, ledgerLog, runtime>>

\* favorites.py lines 122-136 and 150-164: download_song, and on a result
\* add_to_database (append, then save_database, whose OSError ends sync) and the tag
\* call, whose arguments may raise (None.get, [][0]) before apply_tags is entered
FavFetch(song_id, platform, dl, saved, args) ==
    LET f == [fav EXCEPT !.downloads = @ + 1, !.last = dl]
        db == fav_add_to_database(fav.database, song_id, platform)
    IN  CASE dl = "raise" -> fav' = [f EXCEPT !.pc = "raised"]
          [] dl = "none" -> fav' = [f EXCEPT !.i = @ + 1]
          [] dl = "result" ->
               IF saved
               THEN fav' = [f EXCEPT !.database = db,
                                     !.file = fav_save_database(db),
                                     !.i = IF args THEN @ + 1 ELSE @,
                                     !.pc = IF args THEN @ ELSE "raised"]
               ELSE \E file \in FailedSaves(fav.file) :
                       fav' = [f EXCEPT !.database = db, !.file = file,
                                        !.pc = "raised"]

\* favorites.py lines 113-136: one Spotify liked song
SyncSpotifySong(search, dl, saved, args) ==
    /\ fav.pc = "spotify"
    /\ fav.i <= Len(fav.songs)
    /\ LET song_id == fav.songs[fav.i]
       IN  IF fav_is_duplicate(fav.database, song_id, "spotify")
           THEN fav' = [fav EXCEPT !.i = @ + 1, !.skipped = @ + 1, !.last = "skipped"]
           ELSE IF search = "raise"
           THEN fav' = [fav EXCEPT !.pc = "raised", !.last = "searchraise"]
           ELSE IF search = "nomatch"
           THEN fav' = [fav EXCEPT !.i = @ + 1, !.last = "nomatch"]
           ELSE /\ search = "hitnoid" => dl = "none"
                /\ FavFetch(song_id, "spotify", dl, saved, args)
    /\ UNCHANGED <<database, db_file, ledgerLog, runtime>>

\* favorites.py lines 139-141: the Spotify loop is over, the YouTube Music list is
\* fetched
GetYtmusicLiked(songs) ==
    /\ fav.pc = "spotify"
    /\ fav.i > Len(fav.songs)
    /\ fav' = [fav EXCEPT !.pc = "ytmusic", !.songs = songs, !.i = 1]
    /\ UNCHANGED <<database, db_file, ledgerLog, runtime>>

\* favorites.py lines 141-164: one YouTube Music liked song; wellformed is whether
\* the track has the keys that lines 142-148 read (a KeyError ends sync)
SyncYtmusicSong(wellformed, dl, saved, args) ==
    /\ fav.pc = "ytmusic"
    /\ fav.i <= Len(fav.songs)
    /\ LET video_id == fav.songs[fav.i]
       IN  IF ~wellformed
           THEN fav' = [fav EXCEPT !.pc = "raised", !.last = "keyraise"]
           ELSE IF fav_is_duplicate(fav.database, video_id, "ytmusic")
           THEN fav' = [fav EXCEPT !.i = @ + 1, !.skipped = @ + 1, !.last = "skipped"]
           ELSE /\ video_id = NoId => dl = "none"
                /\ FavFetch(video_id, "ytmusic", dl, saved, args)
    /\ UNCHANGED <<database, db_file, ledgerLog, runtime>>

\* favorites.py line 166
FavFinish ==
    /\ fav.pc = "ytmusic"
    /\ fav.i > Len(fav.songs)
    /\ fav' = [fav EXCEPT !.pc = "done"]
    /\ UNCHANGED <<database, db_file, ledgerLog, runtime>>

FavNext ==
    \/ \E songs \in SpotifyLiked : GetSpotifyLiked(songs)
    \/ \E search \in FavSearches, dl \in DownloadOutcomes, saved \in BOOLEAN,
          args \in BOOLEAN : SyncSpotifySong(search, dl, saved, args)
    \/ \E songs \in YtmusicLiked : GetYtmusicLiked(songs)
    \/ \E wellformed \in BOOLEAN, dl \in DownloadOutcomes, saved \in BOOLEAN,
          args \in BOOLEAN : SyncYtmusicSong(wellformed, dl, saved, args)
    \/ FavFinish

FavSpec == FavInit /\ [][FavNext]_vars

\* ------------------------------------------------------------------ properties
Range(q) == {q[k] : k \in DOMAIN q}

Active(w) == worker[w].pc \notin {"none", "done", "crashed"}
Crashed(w) == worker[w].pc = "crashed"

\* no add_artist_to_queue call is under way and no worker thread is running
Quiescent ==
    /\ \A c \in Calls : call[c] \in {"idle", "done"}
    /\ \A w \in Calls : ~Active(w)

\* C1: at most one worker thread (_process_queue_thread) is active at any instant,
\* however the add_artist_to_queue calls interleave.
AtMostOneWorker == Cardinality({w \in Calls : Active(w)}) <= 1

\* C2: ids already in the ledger are skipped, so that no id is successfully
\* downloaded more than once over the jobs run against one ledger.
NoIdDownloadedTwice == \A v \in Ids : okCount[v] <= 1

\* C3: no two entries of the ledger (database) have the same id.
LedgerIdsUnique ==
    \A a, b \in 1..Len(database) : a # b => database[a].id # database[b].id

\* C4: a job's progress never decreases while the job is being processed, and it
\* is 100 at the moment the job is removed from the queue.
ProgressMonotoneAnd100AtRemoval ==
    [][/\ \A j \in Range(download_queue) :
             jobs[j].status = "downloading" => PctLeq(jobs[j].progress, jobs'[j].progress)
       /\ Len(download_queue') < Len(download_queue) =>
             Is100(jobs[Head(download_queue)].progress)]_vars

\* C5: the queue lists the pending jobs in the order they were enqueued (job
\* references count the enqueues): earlier jobs stay ahead of later ones.
QueueIsFIFO ==
    \A a, b \in 1..Len(download_queue) : a < b => download_queue[a] < download_queue[b]

QueueIsFIFOWitness ==
    /\ Len(popped) >= 1
    /\ Len(download_queue) >= 1
    /\ \E w \in Calls : worker[w].pc = "fetch"

\* C6: jobs are set 'downloading' in exactly the order they were enqueued, each
\* only once every earlier job has left the queue, and within a job download_song
\* is called on the candidates in the order the resolver returned them.
StrictFIFOProcessing ==
    [][/\ started' # started =>
             /\ \A k \in 1..Len(started) : started[k] < Last(started')
             /\ \A j \in Range(download_queue) : Last(started') <= j
       /\ \A j \in DOMAIN lastFetch :
             lastFetch'[j] # lastFetch[j] => lastFetch'[j] > lastFetch[j]]_vars

\* C7: under fair scheduling every enqueued job is eventually set 'downloading'
\* and then removed, without a further enqueue (runs in which a thread died of an
\* exception are left out: the claim assumes every call returns).
EveryJobProcessed ==
    \A j \in 1..MaxCalls :
        [](j \in Range(download_queue) =>
              <>(\/ \E w \in Calls : Crashed(w)
                 \/ j \notin Range(download_queue) /\ j \in Range(started)))

\* C8: whatever error occurred, once the threads have come to rest the downloader
\* is idle (processing = False, current_download = None, the failed job out of the
\* queue), so that the next add_artist_to_queue starts a worker.
ErrorsDrainToIdle ==
    Quiescent =>
        /\ processing = FALSE
        /\ current_download = None
        /\ \A w \in Calls : Crashed(w) => worker[w].job \notin Range(download_queue)

\* C9: when the chart lookup fails, the statistics are all zero, no search, fetch
\* or ledger append was made for the job, and the job goes on to be removed.
ChartFailureGivesEmptyStats ==
    \A w \in Calls :
        worker[w].chart = "err" =>
            /\ worker[w].stats = ZeroStats
            /\ worker[w].searches = 0
            /\ worker[w].fetches = 0
            /\ worker[w].downloaded = 0
            /\ worker[w].pc \in {"pop", "clear", "crashed"}
            /\ worker[w].pc # "pop" => worker[w].job \notin Range(download_queue)

ChartFailureWitness ==
    \E w \in Calls :
        /\ worker[w].chart = "err"
        /\ worker[w].pc = "clear"
        /\ Len(popped) = 1
        /\ popped[1].job = worker[w].job

\* C10: a download_song call that returns no result raises nothing: failed goes up
\* by one, the ledger is left as it was, and the loop moves to the next candidate.
FetchFailureIsCounted ==
    [][\A w \in Calls :
          worker'[w].nones = worker[w].nones + 1 =>
              /\ worker'[w].failed = worker[w].failed + 1
              /\ worker'[w].downloaded = worker[w].downloaded
              /\ database' = database
              /\ db_file' = db_file
              /\ worker'[w].pc = "cand"
              /\ worker'[w].i = worker[w].i + 1]_vars

FetchFailureWitness ==
    \E w \in Calls :
        /\ worker[w].pc = "pop"
        /\ worker[w].stats.downloaded = 1
        /\ worker[w].stats.failed = 1
        /\ Len(database) = 1

\* C11: after a successful chart lookup the returned statistics are: total = chart
\* entries, found = entries with a catalog match, downloaded = fetches that gave a
\* result, failed = fetches that gave none, and downloaded + failed + skipped = found.
StatsAddUp ==
    \A w \in Calls :
        (worker[w].chart = "ok" /\ worker[w].stats # NoStats) =>
            /\ worker[w].stats.total = worker[w].searches
            /\ worker[w].stats.found = Len(worker[w].tracks)
            /\ worker[w].stats.downloaded = worker[w].fetches - worker[w].nones
            /\ worker[w].stats.failed = worker[w].nones
            /\ worker[w].stats.downloaded + worker[w].stats.failed + worker[w].skips
                   = worker[w].stats.found

\* two candidates, the second already in the ledger, one chart entry more than matches
StatsAddUpWitness ==
    \E w \in Calls :
        /\ worker[w].chart = "ok"
        /\ worker[w].stats = [total |-> 2, found |-> 2, downloaded |-> 1, failed |-> 0]
        /\ worker[w].skips = 1

\* C12: a save_database failure inside add_to_database after a successful fetch is not
\* fatal: the candidate is counted as downloaded and the job goes on with the next
\* candidate.
SaveFailureNotFatal ==
    [][\A w \in Calls :
          worker'[w].saveErrors = worker[w].saveErrors + 1 =>
              /\ worker'[w].downloaded = worker[w].downloaded + 1
              /\ worker'[w].pc = "cand"
              /\ worker'[w].i = worker[w].i + 1]_vars

\* C13: an add_to_database whose save fails leaves the in-memory ledger as it was, and
\* is_duplicate of the candidate's id is still false.
SaveFailureLeavesLedger ==
    [][\A w \in Calls :
          worker'[w].saveErrors = worker[w].saveErrors + 1 =>
              /\ database' = database
              /\ ~is_duplicate(database', worker[w].tracks[worker[w].i].videoId)]_vars

\* C20: a tag-write failure after a successful fetch keeps the fetch: the candidate is
\* counted as downloaded and not as failed, its ledger entry is kept, and the job goes
\* on with the next candidate.
TagFailureKeepsFetch ==
    [][\A w \in Calls :
          worker'[w].tagErrors = worker[w].tagErrors + 1 =>
              LET track == worker[w].tracks[worker[w].i]
              IN  /\ worker'[w].downloaded = worker[w].downloaded + 1
                  /\ worker'[w].failed = worker[w].failed
                  /\ database' = Append(database,
                                        NewEntry(track.videoId,
                                                 artist_name(track, worker[w].artist)))
                  /\ worker'[w].pc = "cand"
                  /\ worker'[w].i = worker[w].i + 1]_vars

\* the tags of the first candidate failed, the second candidate was then looked at, and
\* the job returned its statistics
TagFailureWitness ==
    \E w \in Calls :
        /\ worker[w].tagErrors = 1
        /\ worker[w].skips = 1
        /\ worker[w].stats = [total |-> 2, found |-> 2, downloaded |-> 1, failed |-> 0]
        /\ is_duplicate(database, worker[w].tracks[1].videoId)

\* C17: a job with an empty artist name is rejected with an error before any chart
\* lookup, catalog search or fetch is issued for it.
EmptyArtistRejectedFirst ==
    \A w \in Calls :
        (worker[w].job # 0 /\ worker[w].artist = "") =>
            /\ worker[w].pc = "crashed"
            /\ worker[w].chart = "none"
            /\ worker[w].searches = 0
            /\ worker[w].fetches = 0

\* a worker took a job with an empty artist name and raised
EmptyArtistWitness ==
    \E w \in Calls :
        /\ worker[w].job # 0
        /\ jobs[worker[w].job].artist = ""
        /\ worker[w].pc = "crashed"

\* C18: whatever list the chart lookup returns, the number of resolved candidates of a
\* job is at most the job's limit.
CandidatesWithinLimit ==
    \A w \in Calls :
        worker[w].chart = "ok" => Len(worker[w].tracks) <= worker[w].limit

\* C19: resolution issues exactly one catalog search per chart entry and keeps only
\* the first result of each; an entry without a match is dropped without error, and
\* the candidates that remain keep the order of the chart.
ResolutionKeepsChartOrder ==
    \A w \in Calls :
        worker[w].chart = "ok" =>
            /\ worker[w].searches = worker[w].total
            /\ Len(worker[w].tracks) <= worker[w].total
            /\ \A k \in 1..Len(worker[w].tracks) :
                  /\ worker[w].tracks[k].kind = "song"
                  /\ worker[w].tracks[k].hit = 1
                  /\ worker[w].tracks[k].entry \in 1..worker[w].total
                  /\ \A j \in 1..(k - 1) :
                        worker[w].tracks[j].entry < worker[w].tracks[k].entry

\* the first chart entry had no match, the second did, and the job ran to its end
ResolutionWitness ==
    \E w \in Calls :
        /\ worker[w].chart = "ok"
        /\ worker[w].total = 2
        /\ Len(worker[w].tracks) = 1
        /\ worker[w].tracks[1].entry = 2
        /\ worker[w].stats # NoStats

\* C14: a crash of the process at any point, also inside save_database, never loses
\* or corrupts the stored ledger: after the restart the ledger holds at least every
\* entry whose add_to_database had returned.
NoRecordedEntryLost ==
    FreshStart =>
        \A k \in 1..Len(ledgerLog.recorded) : ledgerLog.recorded[k] \in Range(database)

\* C15: at startup load_database returns an empty ledger without raising when the file
\* is absent, empty or malformed, and the stored entries when it is well-formed.
LoadGivesLedger ==
    FreshStart =>
        /\ ledgerLog.load = "list"
        /\ database = IF db_file.kind = "ok" THEN db_file.data ELSE <<>>

PrimaryArtistUsed ==
    [][\A w \in Calls :
          worker'[w].fetches = worker[w].fetches + 1 =>
              LET track == worker[w].tracks[worker[w].i]
                  primary == IF track.artists # <<>> THEN Head(track.artists)
                             ELSE worker[w].artist
              IN  /\ worker'[w].subdir = primary
                  /\ database' # database => Last(database').artist = primary
                  /\ worker'[w].pc = "cand" /\ worker'[w].downloaded # worker[w].downloaded
                         => worker'[w].tagArtist = primary]_vars

\* a candidate with two contributing artists and one with none were fetched for a job
\* of artist A
PrimaryArtistWitness ==
    \E w \in Calls :
        /\ worker[w].artist = "A"
        /\ worker[w].subdir = "B"
        /\ worker[w].tagArtist = "B"
        /\ Len(database) = 2
        /\ database[1].artist = "A"
        /\ database[2].artist = "B"

\* C22: add_artist_to_queue appends exactly one new job at the tail of the queue, with
\* status 'queued' and progress 0, and changes neither a job that was already there
\* nor the ledger.
EnqueueFrame ==
    [][\A c \in Calls :
          call'[c] # call[c] =>
              /\ database' = database
              /\ db_file' = db_file
              /\ \A j \in 1..Len(jobs) : jobs'[j] = jobs[j]
              /\ IF call[c] = "idle"
                 THEN /\ Len(jobs') = Len(jobs) + 1
                      /\ download_queue' = Append(download_queue, Len(jobs'))
                      /\ Last(jobs').status = "queued"
                      /\ Last(jobs').progress = Zero
                 ELSE /\ jobs' = jobs
                      /\ download_queue' = download_queue]_vars

\* the second call has just appended its job behind a job that is being downloaded
EnqueueFrameWitness ==
    /\ call[2] = "check"
    /\ Len(download_queue) = 2
    /\ jobs[download_queue[1]].status = "downloading"
    /\ jobs[download_queue[1]].progress # Zero
    /\ jobs[download_queue[2]].status = "queued"
    /\ database # <<>>

\* C23: after the k-th of the n resolved candidates of a job has been handled, skipped
\* or not, the job's progress is (k / n) * 100.
ProgressIsIndexOverTotal ==
    \A w \in Calls :
        (/\ worker[w].chart = "ok"
         /\ worker[w].pc \in {"cand", "pop"}
         /\ worker[w].i > 1) =>
            jobs[worker[w].job].progress = Pct(worker[w].i - 1, Len(worker[w].tracks))

\* a worker is between taking a job (line 327) and clearing it (line 333)
Processing(w) ==
    worker[w].pc \in {"status", "resolve", "cand", "progress", "fetch", "pop", "clear"}

\* C24: get_progress returns the job in flight exactly when a job is being processed;
\* whenever it is not None it is the head of the queue get_queue returns and has status
\* 'downloading', and every job behind it is 'queued'.
AccessorsAgree ==
    /\ current_download # None <=> \E w \in Calls : Processing(w)
    /\ current_download # None =>
          /\ download_queue # <<>>
          /\ Head(download_queue) = current_download
          /\ jobs[current_download].status = "downloading"
          /\ \A k \in 2..Len(download_queue) : jobs[download_queue[k]].status = "queued"

\* C25: a job's status only goes queued -> downloading -> removed: no job is removed
\* while 'queued', none goes back from 'downloading' to 'queued', and at most one job
\* in the queue is 'downloading'.
StatusLifeCycle ==
    [][/\ \A j \in 1..Len(jobs) :
             jobs[j].status = "downloading" => jobs'[j].status = "downloading"
       /\ popped' # popped => Last(popped').status = "downloading"
       /\ Cardinality({k \in 1..Len(download_queue') :
                          jobs'[download_queue'[k]].status = "downloading"}) <= 1]_vars

\* C28: the job a worker removes with pop(0) is the job it has just finished: it is
\* the worker's own job, all of whose candidates have been handled, and it had been
\* set 'downloading'.
PopRemovesFinishedJob ==
    [][popped' # popped =>
          \E w \in Calls :
              /\ worker[w].pc = "pop"
              /\ worker'[w].pc = "clear"
              /\ Head(download_queue) = worker[w].job
              /\ worker[w].stats # NoStats
              /\ Last(popped').status = "downloading"]_vars

\* C26: whenever no add_to_database call is under way, loading database.json gives
\* the entries of the in-memory ledger.
FileInStepWithLedger ==
    /\ LoadOutcome(db_file) = "list"
    /\ load_database(db_file) = database

\* C27: the ledger is append-only and records only successes: it changes only by one
\* entry being appended for the candidate whose download_song has just returned a
\* result, never on a failed fetch or a skipped candidate, and no entry is ever removed
\* or changed.
LedgerAppendOnly ==
    [][database' # database =>
          \E w \in Calls :
              /\ worker[w].pc = "fetch"
              /\ worker'[w].downloaded = worker[w].downloaded + 1
              /\ worker'[w].nones = worker[w].nones
              /\ worker'[w].skips = worker[w].skips
              /\ worker[w].tracks[worker[w].i].videoId # NoId
              /\ Len(database') = Len(database) + 1
              /\ SubSeq(database', 1, Len(database)) = database
              /\ Last(database').id = worker[w].tracks[worker[w].i].videoId]_vars

\* a job of three candidates: one fetch failed, two gave the two ledger entries
LedgerAppendOnlyWitness ==
    \E w \in Calls :
        /\ worker[w].nones = 1
        /\ worker[w].downloaded = 2
        /\ worker[w].stats # NoStats
        /\ Len(database) = 2
        /\ database[1].id # database[2].id

\* C29: a resolved candidate without a catalog id is never given to download_song and
\* never appended to the ledger; it is counted in found, and in neither downloaded nor
\* failed.
NoIdNeverFetched ==
    [][\A w \in Calls :
          /\ worker'[w].fetches = worker[w].fetches + 1 =>
                 worker[w].tracks[worker[w].i].videoId # NoId
          /\ \A k \in 1..Len(database') : database'[k].id # NoId
          /\ (worker'[w].chart = "ok" /\ worker'[w].stats # NoStats) =>
                 /\ worker'[w].stats.found = Len(worker'[w].tracks)
                 /\ worker'[w].stats.downloaded + worker'[w].stats.failed
                        <= Cardinality({k \in 1..Len(worker'[w].tracks) :
                                           worker'[w].tracks[k].videoId # NoId})]_vars

\* a job of two candidates, the first without id, the second fetched
NoIdWitness ==
    \E w \in Calls :
        /\ Len(worker[w].tracks) = 2
        /\ worker[w].tracks[1].videoId = NoId
        /\ worker[w].tracks[2].videoId # NoId
        /\ worker[w].stats = [total |-> 2, found |-> 2, downloaded |-> 1, failed |-> 0]
        /\ worker[w].fetches = 1

\* C30: a catalog search that raises for one chart entry is handled like a search
\* without match: that entry alone is dropped, the other entries of the chart are
\* still searched and become candidates, and the job goes on.
SearchErrorDropsOneEntry ==
    [][\A w \in Calls :
          (worker[w].chart = "none" /\ worker'[w].chart = "ok") =>
              /\ worker'[w].pc = "cand"
              /\ worker'[w].searches = worker'[w].total
              /\ worker'[w].errored \subseteq 1..worker'[w].total
              /\ \A k \in 1..Len(worker'[w].tracks) :
                    worker'[w].tracks[k].entry \notin worker'[w].errored
              /\ Len(worker'[w].tracks) = worker'[w].matched]_vars

\* the search of the first chart entry raised, the second entry was resolved and
\* fetched, and the job returned its statistics
SearchErrorWitness ==
    \E w \in Calls :
        /\ worker[w].chart = "ok"
        /\ worker[w].errored = {1}
        /\ Len(worker[w].tracks) = 1
        /\ worker[w].tracks[1].entry = 2
        /\ worker[w].stats = [total |-> 2, found |-> 1, downloaded |-> 1, failed |-> 0]

\* C31: in FavoritesSync.sync, for each platform, a liked song whose id is already in
\* the platform's list is never downloaded, an entry is added to a list only after a
\* successful download of that song, and so no list ever holds the same id twice, also
\* when the liked-songs list repeats an id.
FavoritesNoDuplicates ==
    [][/\ fav'.downloads = fav.downloads + 1 =>
             /\ fav.pc \in Platforms
             /\ \A k \in 1..Len(fav.database[fav.pc]) :
                   fav.database[fav.pc][k].id # fav.songs[fav.i]
       /\ \A q \in Platforms :
             fav'.database[q] # fav.database[q] =>
                 /\ q = fav.pc
                 /\ fav'.downloads = fav.downloads + 1
                 /\ fav'.last = "result"
                 /\ fav'.database[q] = Append(fav.database[q], [id |-> fav.songs[fav.i]])
       /\ \A q \in Platforms :
             \A j, k \in 1..Len(fav'.database[q]) :
                 j # k => fav'.database[q][j].id # fav'.database[q][k].id]_vars

\* the Spotify liked songs named the same id twice: the first was downloaded and
\* added, the second was skipped
FavoritesWitness ==
    /\ fav.pc = "spotify"
    /\ Len(fav.songs) = 2
    /\ fav.songs[1] = fav.songs[2]
    /\ fav.i = 3
    /\ fav.downloads = 1
    /\ fav.skipped = 1
    /\ \E k \in 1..Len(fav.database.spotify) : fav.database.spotify[k].id = fav.songs[1]

====
